---- MODULE Spec2Model ----
(***************************************************************************)
(* Room-scoped broadcast engine: the patched room-membership adapter       *)
(* (src/lib/riugh.ts) and the broadcast operator with its acknowledgment   *)
(* aggregation (src/unnamed/part_000).                                     *)
(*                                                                         *)
(* The specifications share one state:                                     *)
(*   Spec          the patched adapter's membership calls: addAll, del     *)
(*   BroadcastSpec the patched broadcast, over every membership table      *)
(*   OperatorSpec  the chainable, immutable broadcast operators            *)
(*   AckSpec       one acknowledgment-seeking emit and its events          *)
(*   AckFairSpec   AckSpec with the timer callback run when due            *)
(***************************************************************************)
EXTENDS Integers, Sequences, FiniteSets, TLC

(* ------------------------------ bounds -------------------------------- *)

\* binary attachments of one packet (the encoder yields 1 + that many frames)
MaxAttachments == 2

\* operators constructed in one run (the root one included)
MaxOps == 3

\* acknowledgments delivered to one emit
MaxResponses == 5

\* per-server reports delivered to one emit
MaxReports == 2

(* --------------------------- model universes --------------------------- *)

\* rooms named in selectors
OpRooms == {"x", "y"}

\* arguments of timeout(ms)
Timeouts == {100, 200}

\* event names passed to emit: an ordinary one and a reserved one
Events == {"foo", "connect"}

\* RESERVED_EVENTS of ./socket
RESERVED_EVENTS ==
    {"connect", "connect_error", "disconnect", "disconnecting",
     "newListener", "removeListener"}

\* matching-client counts one server can report
ClientCounts == 0..3

\* values serverCount() can resolve to
ServerCounts == 0..2

\* acknowledgment payloads
ResponseValues == {"a", "b"}

\* connection identifiers of the namespace
Ids == {"s1", "s2"}

\* room names used by callers
RoomNames == {"r1", "r2"}

\* this.nsp.name
NspName == "/chat"

\* riugh.ts:11 (the unit separator, written here as a printable character)
SEPARATOR == "|"

VARIABLES
    useWsLibrary,   \* patchAdapter's second parameter
    conn,           \* id -> "pending" | "live" | "gone": membership of nsp.sockets
    transport,      \* id -> socket.conn.transport.name (its socket is what
                    \* subscribes, so Init takes the websocket transport)
    sids,           \* Adapter.sids: id -> set of rooms (a partial map)
    rooms,          \* Adapter.rooms: room -> set of ids (empty = absent)
    subscribed,     \* id -> topics the connection's transport is subscribed to
    bypassed,       \* ids for which some addAll/del returned at "if (!socket)"
    lastCall,       \* what the most recent adapter call did
    setHeap,        \* the Set<Room> objects: reference -> contents
    flagHeap,       \* the flags objects: reference -> contents
    ops,            \* the operators: [rooms, exceptRooms, flags] references
    meta,           \* per operator: its class, the wrapped operator and userRole
                    \* of a proxy, and the operator whose method returned it
    remote,         \* the RemoteSocket's private operator (0: none constructed)
    lastEmit,       \* the adapter call made by the most recent emit
    emitter,        \* the operator of the acknowledged emit (0: none started)
    timer,          \* "none" | "pending" | "fired" | "cleared"
    timedOut,
    responses,
    expectedServerCount,
    actualServerCount,
    expectedClientCount,
    serverCountPromise, \* "none" | "pending" | "resolved"
    acks            \* the invocations of the ack callback, in order

adapterVars ==
    <<useWsLibrary, conn, transport, sids, rooms, subscribed, bypassed, lastCall>>

opVars == <<setHeap, flagHeap, ops, meta, remote, lastEmit>>

ackVars ==
    <<emitter, timer, timedOut, responses, expectedServerCount, actualServerCount,
      expectedClientCount, serverCountPromise, acks>>

vars == <<adapterVars, opVars, ackVars>>

(* ------------------------------- topics -------------------------------- *)

\* `${namespaceName}${SEPARATOR}${room}`
RoomTopic(namespaceName, room) == namespaceName \o SEPARATOR \o room

(* ---------------------- socket.io-adapter (base) ----------------------- *)

SidsHas(id) == id \in DOMAIN sids

SidsGet(id) == IF SidsHas(id) THEN sids[id] ELSE {}

\* addAll.call(this, id, rooms): create the sids entry, add id to each room
BaseAddAllSids(id, rs) ==
    [i \in DOMAIN sids \cup {id} |-> IF i = id THEN SidsGet(id) \cup rs ELSE sids[i]]

BaseAddAllRooms(id, rs) ==
    [r \in RoomNames |-> IF r \in rs THEN rooms[r] \cup {id} ELSE rooms[r]]

\* del.call(this, id, room): drop the room from sids[id] and id from the room
BaseDelSids(id, room) ==
    [i \in DOMAIN sids |-> IF i = id THEN sids[i] \ {room} ELSE sids[i]]

BaseDelRooms(id, room) ==
    [r \in RoomNames |-> IF r = room THEN rooms[r] \ {id} ELSE rooms[r]]

\* this.nsp.sockets.get(id)
NspSocketsGet(id) == conn[id] = "live"

(* --------------------------- transport binding ------------------------- *)

\* variant: subscribes a new connection only
HandleUWebSocketsMutOnlyNew(namespaceName, id, isNew, rs) ==
    IF isNew
    THEN {namespaceName} \cup {RoomTopic(namespaceName, r) : r \in rs}
    ELSE {}

\* variant: subscribes only the rooms the connection was not yet in
HandleUWebSocketsMutDiff(namespaceName, id, isNew, rs) ==
    (IF isNew THEN {namespaceName} ELSE {})
        \cup {RoomTopic(namespaceName, r) : r \in rs \ SidsGet(id)}

\* handleUWebSockets: the set of topics websocket.subscribe is called with
HandleUWebSockets(namespaceName, id, isNew, rs) ==
    (IF isNew THEN {namespaceName} ELSE {})
        \cup {RoomTopic(namespaceName, r) : r \in rs}

\* handleWsLibrary: same calls on the ws socket
HandleWsLibrary(namespaceName, id, isNew, rs) ==
    (IF isNew THEN {namespaceName} ELSE {})
        \cup {RoomTopic(namespaceName, r) : r \in rs}

\* variant: the unsubscribe also drops the namespace topic
UnsubscribeUWebSocketsMutNsp(namespaceName, room) ==
    {namespaceName, namespaceName \o SEPARATOR \o room}

\* unsubscribeUWebSockets: the topic websocket.unsubscribe is called with
UnsubscribeUWebSockets(namespaceName, room) == {RoomTopic(namespaceName, room)}

UnsubscribeWsLibrary(namespaceName, room) == {RoomTopic(namespaceName, room)}

(* ------------------------------ the codec ------------------------------ *)

\* this.encoder.encode(packet): one text frame, then one frame per attachment
Encode(attachments) ==
    <<[binary |-> FALSE, data |-> "2[ev]"]>>
        \o [i \in 1..attachments |-> [binary |-> TRUE, data |-> "bin"]]

NoCall ==
    [op |-> "none", id |-> "", rooms |-> {}, except |-> {}, isNew |-> FALSE,
     wasMember |-> {}, subscribeCalls |-> {}, unsubscribeCalls |-> {}, logged |-> FALSE,
     frames |-> <<>>, publishes |-> <<>>, generic |-> FALSE, writes |-> {}]

(* ------------------------------- Init ---------------------------------- *)

\* this.flags of an operator constructed without flags: {}
NoFlags == [k \in {} |-> TRUE]

NoEmit == [method |-> "none", via |-> 0, ev |-> "", withAck |-> FALSE,
           rooms |-> {}, except |-> {}, flags |-> NoFlags, returned |-> FALSE]

\* const broadcastOperator = new BroadcastOperator(adapter): fresh empty sets
\* and flags; no emit under way
\* an operator of class BroadcastOperator itself; from is the operator whose
\* chaining method returned it, 0 for one built by a constructor call
Plain(from) ==
    [class |-> "BroadcastOperator", wrapped |-> 0, userRole |-> "", from |-> from]

OperatorInit ==
    /\ setHeap = <<{}, {}>>
    /\ flagHeap = <<NoFlags>>
    /\ ops = <<[rooms |-> 1, exceptRooms |-> 2, flags |-> 1]>>
    /\ meta = <<Plain(0)>>
    /\ remote = 0
    /\ lastEmit = NoEmit
    /\ emitter = 0
    /\ timer = "none"
    /\ timedOut = FALSE
    /\ responses = <<>>
    /\ expectedServerCount = -1
    /\ actualServerCount = 0
    /\ expectedClientCount = 0
    /\ serverCountPromise = "none"
    /\ acks = <<>>

\* the adapter before any call, patched with the default useWsLibrary = false
AdapterIdle ==
    /\ useWsLibrary = FALSE
    /\ conn = [i \in Ids |-> "pending"]
    /\ transport = [i \in Ids |-> "websocket"]
    /\ sids = <<>>
    /\ rooms = [r \in RoomNames |-> {}]
    /\ subscribed = [i \in Ids |-> {}]
    /\ bypassed = {}
    /\ lastCall = NoCall

OperatorsInit == OperatorInit /\ AdapterIdle

Init ==
    /\ OperatorInit
    /\ useWsLibrary \in BOOLEAN
    /\ conn = [i \in Ids |-> "pending"]
    /\ transport = [i \in Ids |-> "websocket"]
    /\ sids = <<>>
    /\ rooms = [r \in RoomNames |-> {}]
    /\ subscribed = [i \in Ids |-> {}]
    /\ bypassed = {}
    /\ lastCall = NoCall

(* --------------------- the namespace (environment) --------------------- *)

\* nsp.sockets.set(id, socket): the connection becomes live
NspConnect(id) ==
    /\ conn[id] = "pending"
    /\ conn' = [conn EXCEPT ![id] = "live"]
    /\ UNCHANGED <<useWsLibrary, transport, sids, rooms, subscribed, bypassed, lastCall>>
    /\ UNCHANGED <<opVars, ackVars>>

\* nsp.sockets.delete(id): the connection is gone (its transport with it)
NspRemove(id) ==
    /\ conn[id] = "live"
    /\ conn' = [conn EXCEPT ![id] = "gone"]
    /\ UNCHANGED <<useWsLibrary, transport, sids, rooms, subscribed, bypassed, lastCall>>
    /\ UNCHANGED <<opVars, ackVars>>

(* ------------------------- Adapter.prototype.addAll -------------------- *)

AddAll(id, rs) ==
    LET isNew == ~SidsHas(id)
        live == NspSocketsGet(id)
        calls == IF useWsLibrary
                 THEN HandleWsLibrary(NspName, id, isNew, rs)
                 ELSE HandleUWebSockets(NspName, id, isNew, rs)
    IN
    /\ sids' = BaseAddAllSids(id, rs)
    /\ rooms' = BaseAddAllRooms(id, rs)
    /\ IF ~live
       THEN /\ bypassed' = bypassed \cup {id}
            /\ subscribed' = subscribed
            /\ lastCall' = [NoCall EXCEPT !.op = "addAll", !.id = id, !.rooms = rs,
                                          !.isNew = isNew,
                                          !.wasMember = rs \cap SidsGet(id)]
       ELSE /\ bypassed' = bypassed
            /\ subscribed' = [subscribed EXCEPT ![id] = @ \cup calls]
            /\ lastCall' = [NoCall EXCEPT !.op = "addAll", !.id = id, !.rooms = rs,
                                          !.isNew = isNew,
                                          !.wasMember = rs \cap SidsGet(id),
                                          !.subscribeCalls = calls,
                                          !.logged = isNew]
    /\ UNCHANGED <<useWsLibrary, conn, transport>>
    /\ UNCHANGED <<opVars, ackVars>>

(* --------------------------- Adapter.prototype.del --------------------- *)

Del(id, room) ==
    LET live == NspSocketsGet(id)
        calls == IF useWsLibrary
                 THEN UnsubscribeWsLibrary(NspName, room)
                 ELSE UnsubscribeUWebSockets(NspName, room)
    IN
    /\ sids' = BaseDelSids(id, room)
    /\ rooms' = BaseDelRooms(id, room)
    /\ IF ~live
       THEN /\ bypassed' = bypassed \cup {id}
            /\ subscribed' = subscribed
            /\ lastCall' = [NoCall EXCEPT !.op = "del", !.id = id, !.rooms = {room},
                                          !.wasMember = {room} \cap SidsGet(id)]
       ELSE /\ bypassed' = bypassed
            /\ subscribed' = [subscribed EXCEPT ![id] = @ \ calls]
            /\ lastCall' = [NoCall EXCEPT !.op = "del", !.id = id, !.rooms = {room},
                                          !.wasMember = {room} \cap SidsGet(id),
                                          !.unsubscribeCalls = calls]
    /\ UNCHANGED <<useWsLibrary, conn, transport>>
    /\ UNCHANGED <<opVars, ackVars>>

(* ------------------------ Adapter.prototype.broadcast ------------------ *)

\* variant: ignores opts.except
UseFastPublishMutNoExcept(optsRooms, optsExcept) == Cardinality(optsRooms) <= 1

\* opts.rooms.size <= 1 && opts.except.size === 0
UseFastPublish(optsRooms, optsExcept) ==
    Cardinality(optsRooms) <= 1 /\ Cardinality(optsExcept) = 0

\* opts.rooms.size === 0 ? this.nsp.name : nsp + SEPARATOR + the first room
FastTopic(optsRooms) ==
    IF Cardinality(optsRooms) = 0
    THEN NspName
    ELSE RoomTopic(NspName, CHOOSE r \in optsRooms : TRUE)

\* encodedPackets.forEach(... app.publish(topic, message, isBinary))
PublishAll(topic, frames) ==
    [i \in 1..Len(frames) |->
        [topic |-> topic,
         message |-> IF frames[i].binary THEN frames[i].data ELSE "4" \o frames[i].data,
         isBinary |-> frames[i].binary]]

\* the connections app.publish(topic, ...) delivers to: the open websocket
\* transports subscribed to the topic
PublishRecipients(topic) ==
    {id \in Ids : /\ conn[id] = "live"
                  /\ transport[id] = "websocket"
                  /\ topic \in subscribed[id]}

\* Adapter.computeExceptSids (base)
ComputeExceptSids(optsExcept) == UNION {rooms[r] : r \in optsExcept}

\* this.apply(opts, callback) (base): the live sockets the selector matches
Apply(optsRooms, optsExcept) ==
    LET candidates == IF optsRooms # {}
                      THEN UNION {rooms[r] : r \in optsRooms}
                      ELSE DOMAIN sids
    IN {id \in candidates : id \notin ComputeExceptSids(optsExcept) /\ NspSocketsGet(id)}

Broadcast(attachments, optsRooms, optsExcept) ==
    /\ IF ~UseFastPublish(optsRooms, optsExcept)
       THEN \* broadcast.call(this, packet, opts): per-connection delivery
            lastCall' = [NoCall EXCEPT !.op = "broadcast", !.rooms = optsRooms,
                                       !.except = optsExcept,
                                       !.frames = Encode(attachments),
                                       !.generic = TRUE,
                                       !.writes = Apply(optsRooms, optsExcept)]
       ELSE LET encodedPackets == Encode(attachments)
                topic == FastTopic(optsRooms)
            IN lastCall' = [NoCall EXCEPT !.op = "broadcast", !.rooms = optsRooms,
                                          !.except = optsExcept,
                                          !.frames = encodedPackets,
                                          !.publishes = PublishAll(topic, encodedPackets),
                                          !.writes = {id \in Apply(optsRooms, optsExcept) :
                                                         transport[id] # "websocket"}]
    /\ UNCHANGED <<useWsLibrary, conn, transport, sids, rooms, subscribed, bypassed>>
    /\ UNCHANGED <<opVars, ackVars>>

(* ------------------------------ the adapter ---------------------------- *)

\* membership changes of the patched adapter
Next ==
    \/ \E id \in Ids : NspConnect(id)
    \/ \E id \in Ids : NspRemove(id)
    \/ \E id \in Ids, rs \in SUBSET RoomNames : AddAll(id, rs)
    \/ \E id \in Ids, room \in RoomNames : Del(id, room)

Spec == Init /\ [][Next]_vars

\* Adapter.rooms as the base adapter keeps it: the inverse of Adapter.sids
RoomsOf(s) == [r \in RoomNames |-> {i \in DOMAIN s : r \in s[i]}]

\* the partial maps id -> set of rooms
SidsMaps == UNION {[D -> SUBSET RoomNames] : D \in SUBSET Ids}

\* broadcasts over every membership table the adapter can hold: a connection
\* is pending, live or gone, with or without a membership record; a record
\* made while the connection was not yet in nsp.sockets has no subscription
BroadcastInit ==
    /\ OperatorInit
    /\ useWsLibrary = FALSE   \* broadcast does not read it
    /\ conn \in [Ids -> {"pending", "live", "gone"}]
    /\ transport \in [Ids -> {"websocket", "polling"}]
    /\ sids \in SidsMaps
    /\ rooms = RoomsOf(sids)
    /\ bypassed \in SUBSET DOMAIN sids
    /\ \A i \in DOMAIN sids : conn[i] = "pending" => i \in bypassed
    /\ subscribed = [i \in Ids |->
          IF i \in DOMAIN sids /\ i \notin bypassed
          THEN {NspName} \cup {RoomTopic(NspName, r) : r \in sids[i]}
          ELSE {}]
    /\ lastCall = NoCall

BroadcastNext ==
    \E a \in 0..MaxAttachments, rs \in SUBSET RoomNames, ex \in SUBSET RoomNames :
        Broadcast(a, rs, ex)

BroadcastSpec == BroadcastInit /\ [][BroadcastNext]_vars

(* ======================= properties of the adapter ===================== *)

\* the base adapter keeps its two tables inverse to each other
RoomsMirrorSids == rooms = RoomsOf(sids)

ExpectedTopics(id) ==
    {NspName} \cup {NspName \o SEPARATOR \o r : r \in SidsGet(id)}

\* C1 (as stated): after any addAll or del call on a connection that was live
\* at every call, the transport is subscribed to exactly the namespace topic
\* and the topics of the rooms the connection is in.
C1_AfterEveryCall ==
    (/\ lastCall.op \in {"addAll", "del"}
     /\ conn[lastCall.id] = "live"
     /\ lastCall.id \notin bypassed)
        => subscribed[lastCall.id] = ExpectedTopics(lastCall.id)

\* C1 (amended): the same, once a first addAll has created the connection's
\* membership record; a del that precedes every addAll subscribes nothing.
C1_SubscriptionsMatchMembership ==
    \A id \in Ids :
        (SidsHas(id) /\ conn[id] = "live" /\ id \notin bypassed)
            => subscribed[id] = ExpectedTopics(id)

\* C1 witness: a live connection that joined two rooms and then left one
C1_Witness ==
    /\ lastCall.op = "del"
    /\ lastCall.wasMember # {}
    /\ conn[lastCall.id] = "live"
    /\ lastCall.id \notin bypassed
    /\ SidsGet(lastCall.id) # {}
    /\ subscribed[lastCall.id] = ExpectedTopics(lastCall.id)

C7_FastPathDecision ==
    lastCall.op = "broadcast" =>
        LET fast == Cardinality(lastCall.rooms) <= 1 /\ Cardinality(lastCall.except) = 0
            topic == IF lastCall.rooms = {}
                     THEN NspName
                     ELSE NspName \o SEPARATOR \o (CHOOSE r \in lastCall.rooms : TRUE)
        IN /\ lastCall.generic <=> ~fast
           /\ fast => /\ Len(lastCall.publishes) = Len(lastCall.frames)
                      /\ \A i \in 1..Len(lastCall.publishes) :
                            lastCall.publishes[i].topic = topic
           /\ ~fast => lastCall.publishes = <<>>

\* C7 witness: a three-frame packet published to one room's topic while two
\* live connections are in that room
C7_Witness ==
    /\ lastCall.op = "broadcast"
    /\ lastCall.rooms = {"r1"}
    /\ lastCall.except = {}
    /\ ~lastCall.generic
    /\ Len(lastCall.publishes) = 3
    /\ rooms["r1"] = Ids
    /\ \A i \in Ids : conn[i] = "live"


(* ========================= BroadcastOperator =========================== *)

RemoteIds == {"s1"}

\* the contents behind an operator's three references
RoomsOfOp(i) == setHeap[ops[i].rooms]

ExceptOfOp(i) == setHeap[ops[i].exceptRooms]

FlagsOfOp(i) == flagHeap[ops[i].flags]

\* what an operator selects, by value
View(i) == [rooms |-> RoomsOfOp(i), exceptRooms |-> ExceptOfOp(i), flags |-> FlagsOfOp(i)]

\* variant: the new flags object holds the one flag only
AssignMutFresh(flags, k, v) == [x \in {k} |-> v]

\* Object.assign({}, this.flags, { [k]: v })
Assign(flags, k, v) ==
    [x \in DOMAIN flags \cup {k} |-> IF x = k THEN v ELSE flags[x]]

\* variant: adds to this.rooms itself
ToHeapMutInPlace(i, rs) ==
    Append([setHeap EXCEPT ![ops[i].rooms] = @ \cup rs], setHeap[ops[i].rooms] \cup rs)

\* to: const rooms = new Set(this.rooms); rooms.add(...) -- the heap afterwards
ToHeap(i, rs) == Append(setHeap, setHeap[ops[i].rooms] \cup rs)

\* except: const exceptRooms = new Set(this.exceptRooms); exceptRooms.add(...)
ExceptHeap(i, rs) == Append(setHeap, setHeap[ops[i].exceptRooms] \cup rs)

\* new BroadcastOperator(this.adapter, rooms, this.exceptRooms, this.flags)
To(i, rs) ==
    /\ Len(ops) < MaxOps
    /\ setHeap' = ToHeap(i, rs)
    /\ ops' = Append(ops, [rooms |-> Len(setHeap) + 1,
                           exceptRooms |-> ops[i].exceptRooms,
                           flags |-> ops[i].flags])
    /\ meta' = Append(meta, Plain(i))
    /\ UNCHANGED <<flagHeap, remote, lastEmit, adapterVars, ackVars>>

\* in(room) { return this.to(room) }
In(i, rs) == To(i, rs)

Except(i, rs) ==
    /\ Len(ops) < MaxOps
    /\ setHeap' = ExceptHeap(i, rs)
    /\ ops' = Append(ops, [rooms |-> ops[i].rooms,
                           exceptRooms |-> Len(setHeap) + 1,
                           flags |-> ops[i].flags])
    /\ meta' = Append(meta, Plain(i))
    /\ UNCHANGED <<flagHeap, remote, lastEmit, adapterVars, ackVars>>

\* compress, volatile, local, timeout: a new flags object, the same two sets
WithFlag(i, k, v) ==
    /\ Len(ops) < MaxOps
    /\ flagHeap' = Append(flagHeap, Assign(FlagsOfOp(i), k, v))
    /\ ops' = Append(ops, [rooms |-> ops[i].rooms,
                           exceptRooms |-> ops[i].exceptRooms,
                           flags |-> Len(flagHeap) + 1])
    /\ meta' = Append(meta, Plain(i))
    /\ UNCHANGED <<setHeap, remote, lastEmit, adapterVars, ackVars>>

Compress(i, compress) == WithFlag(i, "compress", compress)

Volatile(i) == WithFlag(i, "volatile", TRUE)

Local(i) == WithFlag(i, "local", TRUE)

Timeout(i, timeout) == WithFlag(i, "timeout", timeout)

(* --------------------------- RemoteSocket ------------------------------ *)

\* constructor: new BroadcastOperator(adapter, new Set([this.id]), new Set(),
\* { expectSingleResponse: true })
RemoteSocketNew(id) ==
    /\ remote = 0
    /\ Len(ops) < MaxOps
    /\ setHeap' = setHeap \o <<{id}, {}>>
    /\ flagHeap' = Append(flagHeap, Assign(NoFlags, "expectSingleResponse", TRUE))
    /\ ops' = Append(ops, [rooms |-> Len(setHeap) + 1,
                           exceptRooms |-> Len(setHeap) + 2,
                           flags |-> Len(flagHeap) + 1])
    /\ meta' = Append(meta, Plain(0))
    /\ remote' = Len(ops) + 1
    /\ UNCHANGED <<lastEmit, adapterVars, ackVars>>

\* timeout(timeout) { return this.operator.timeout(timeout) }
RemoteSocketTimeout(timeout) ==
    /\ remote # 0
    /\ Timeout(remote, timeout)

(* ------------------------- BroadcastOperator.emit ---------------------- *)

\* this.flags.expectSingleResponse
ExpectSingleResponse(flags) ==
    "expectSingleResponse" \in DOMAIN flags /\ flags["expectSingleResponse"] = TRUE

\* variant: no timer without flags.timeout
StartTimerMutOnlyWhenSet(flags) ==
    IF "timeout" \in DOMAIN flags THEN "pending" ELSE "none"

\* setTimeout(..., this.flags.timeout): armed whatever this.flags.timeout is
StartTimer(flags) == "pending"

\* let expectedServerCount = -1
InitialExpectedServerCount == -1

\* variant: does not look at timedOut
CheckCompletenessMutIgnoreTimedOut(to, esc, asc, rlen, ecc) ==
    esc = asc /\ rlen = ecc

\* variant: does not compare the server counts
CheckCompletenessMutIgnoreServers(to, esc, asc, rlen, ecc) ==
    ~to /\ rlen = ecc

\* the condition of checkCompleteness
CheckCompleteness(to, esc, asc, rlen, ecc) ==
    ~to /\ esc = asc /\ rlen = ecc

\* variant: always passes the array
SuccessAckMutAlwaysArray(flags, resp) ==
    [err |-> "null", kind |-> "array", value |-> "", array |-> resp]

\* ack.apply(this, [null, expectSingleResponse ? responses[0] : responses])
SuccessAck(flags, resp) ==
    IF ExpectSingleResponse(flags)
    THEN IF Len(resp) > 0
         THEN [err |-> "null", kind |-> "value", value |-> resp[1], array |-> <<>>]
         ELSE [err |-> "null", kind |-> "undefined", value |-> "", array |-> <<>>]
    ELSE [err |-> "null", kind |-> "array", value |-> "", array |-> resp]

\* ack.apply(this, [new Error("operation has timed out"),
\*                  expectSingleResponse ? null : responses])
TimeoutAck(flags, resp) ==
    IF ExpectSingleResponse(flags)
    THEN [err |-> "timeout", kind |-> "null", value |-> "", array |-> <<>>]
    ELSE [err |-> "timeout", kind |-> "array", value |-> "", array |-> resp]

\* variant: no event name is refused
IsReservedMutNever(ev) == FALSE

\* RESERVED_EVENTS.has(ev)
IsReserved(ev) == ev \in RESERVED_EVENTS

\* variant: every emit is taken to carry a callback
WithAckMutAlways(lastIsFunction) == TRUE

\* const withAck = typeof data[data.length - 1] === "function"
WithAck(lastIsFunction) == lastIsFunction

Emit(i, ev, withAck) ==
    IF IsReserved(ev)
    THEN \* throw new Error(... is a reserved event name)
         /\ lastEmit' = [NoEmit EXCEPT !.method = "throw", !.via = i, !.ev = ev,
                                       !.withAck = withAck]
         /\ UNCHANGED <<setHeap, flagHeap, ops, meta, remote, adapterVars, ackVars>>
    ELSE IF ~WithAck(withAck)
    THEN \* this.adapter.broadcast(packet, {rooms, except, flags}); return true
         /\ lastEmit' = [method |-> "broadcast", via |-> i, ev |-> ev,
                         withAck |-> withAck,
                         rooms |-> RoomsOfOp(i), except |-> ExceptOfOp(i),
                         flags |-> FlagsOfOp(i), returned |-> TRUE]
         /\ UNCHANGED <<setHeap, flagHeap, ops, meta, remote, adapterVars, ackVars>>
    ELSE \* the timer, the counters, broadcastWithAck, serverCount(); return true
         /\ emitter = 0
         /\ emitter' = i
         /\ timedOut' = FALSE
         /\ responses' = <<>>
         /\ timer' = StartTimer(FlagsOfOp(i))
         /\ expectedServerCount' = InitialExpectedServerCount
         /\ actualServerCount' = 0
         /\ expectedClientCount' = 0
         /\ serverCountPromise' = "pending"
         /\ acks' = <<>>
         /\ lastEmit' = [method |-> "broadcastWithAck", via |-> i, ev |-> ev,
                         withAck |-> withAck,
                         rooms |-> RoomsOfOp(i), except |-> ExceptOfOp(i),
                         flags |-> FlagsOfOp(i), returned |-> TRUE]
         /\ UNCHANGED <<setHeap, flagHeap, ops, meta, remote, adapterVars>>

\* emit(ev, ...args) { return this.operator.emit(ev, ...args) }
\* variant: the appended callback resolves whatever it is given
EmitWithAckCallbackMutAlwaysResolve(a) ==
    [call |-> "resolve", err |-> "null", kind |-> a.kind, value |-> a.value,
     array |-> a.array]

\* the callback emitWithAck appends to the arguments, invoked with a = (err, responses):
\* if (err) { err.responses = responses; return reject(err) } else return resolve(responses)
EmitWithAckCallback(a) ==
    IF a.err # "null"
    THEN [call |-> "reject", err |-> a.err, kind |-> a.kind, value |-> a.value,
          array |-> a.array]
    ELSE [call |-> "resolve", err |-> "null", kind |-> a.kind, value |-> a.value,
          array |-> a.array]

\* emitWithAck(ev, ...args): this.emit(ev, ...args, callback) inside the promise
EmitWithAck(i, ev) == Emit(i, ev, TRUE)

RemoteSocketEmit(ev, withAck) ==
    /\ remote # 0
    /\ Emit(remote, ev, withAck)

(* -------------------- the events of an acknowledged emit --------------- *)

\* checkCompleteness() on the values just written
CheckAndAck(to, esc, asc, resp, ecc) ==
    IF CheckCompleteness(to, esc, asc, Len(resp), ecc)
    THEN /\ timer' = (IF timer = "pending" THEN "cleared" ELSE timer)
         /\ acks' = Append(acks, SuccessAck(FlagsOfOp(emitter), resp))
    ELSE UNCHANGED <<timer, acks>>

\* (clientCount) => { expectedClientCount += clientCount; actualServerCount++; ... }
ServerResponded(clientCount) ==
    /\ emitter # 0
    /\ actualServerCount < MaxReports
    /\ expectedClientCount' = expectedClientCount + clientCount
    /\ actualServerCount' = actualServerCount + 1
    /\ CheckAndAck(timedOut, expectedServerCount, actualServerCount + 1, responses,
                   expectedClientCount + clientCount)
    /\ UNCHANGED <<emitter, timedOut, responses, expectedServerCount,
                   serverCountPromise, opVars, adapterVars>>

\* (clientResponse) => { responses.push(clientResponse); checkCompleteness() }
ClientResponded(clientResponse) ==
    /\ emitter # 0
    /\ Len(responses) < MaxResponses
    /\ responses' = Append(responses, clientResponse)
    /\ CheckAndAck(timedOut, expectedServerCount, actualServerCount,
                   Append(responses, clientResponse), expectedClientCount)
    /\ UNCHANGED <<emitter, timedOut, expectedServerCount, actualServerCount,
                   expectedClientCount, serverCountPromise, opVars, adapterVars>>

\* serverCount().then((serverCount) => { expectedServerCount = serverCount; ... })
ServerCountResolved(serverCount) ==
    /\ serverCountPromise = "pending"
    /\ serverCountPromise' = "resolved"
    /\ expectedServerCount' = serverCount
    /\ CheckAndAck(timedOut, serverCount, actualServerCount, responses,
                   expectedClientCount)
    /\ UNCHANGED <<emitter, timedOut, responses, actualServerCount,
                   expectedClientCount, opVars, adapterVars>>

\* the setTimeout callback: timedOut = true; ack(timeout error, ...)
TimerFires ==
    /\ timer = "pending"
    /\ timer' = "fired"
    /\ timedOut' = TRUE
    /\ acks' = Append(acks, TimeoutAck(FlagsOfOp(emitter), responses))
    /\ UNCHANGED <<emitter, responses, expectedServerCount, actualServerCount,
                   expectedClientCount, serverCountPromise, opVars, adapterVars>>

(* ------------------------------ the proxies ---------------------------- *)

UserRoles == {"admin", "user"}

\* constructor of a proxy class: super(wrapped['adapter'], wrapped['rooms'],
\* wrapped['exceptRooms'], wrapped['flags']) -- the references of the wrapped
NewProxy(class, wrapped, userRole) ==
    /\ Len(ops) < MaxOps
    /\ ops' = Append(ops, ops[wrapped])
    /\ meta' = Append(meta, [class |-> class, wrapped |-> wrapped,
                             userRole |-> userRole, from |-> 0])
    /\ UNCHANGED <<setHeap, flagHeap, remote, lastEmit, adapterVars, ackVars>>

LoggingBroadcastOperatorNew(wrapped) ==
    NewProxy("LoggingBroadcastOperator", wrapped, "")

CompressionBroadcastOperatorNew(wrapped) ==
    NewProxy("CompressionBroadcastOperator", wrapped, "")

AccessControlBroadcastOperatorNew(wrapped, userRole) ==
    NewProxy("AccessControlBroadcastOperator", wrapped, userRole)

\* hasPermission(): this.userRole === 'admin'
HasPermission(i) == meta[i].userRole = "admin"

\* the operator whose BroadcastOperator.emit runs when emit is called on
\* operator i, 0 when an access control proxy on the way returns false:
\*   BroadcastOperator             the operator itself
\*   LoggingBroadcastOperator      console.log; this.wrapped.emit
\*   CompressionBroadcastOperator  this.wrapped.compress(true), whose result (a
\*                                 new operator) is dropped; this.wrapped.emit
\*   AccessControlBroadcastOperator  this.wrapped.emit if hasPermission()
RECURSIVE Dispatch(_)
Dispatch(i) ==
    IF meta[i].class = "BroadcastOperator"
    THEN i
    ELSE IF meta[i].class = "AccessControlBroadcastOperator" /\ ~HasPermission(i)
    THEN 0
    ELSE Dispatch(meta[i].wrapped)

\* operator.emit(ev, ...args) on an operator of any class
EmitOn(i, ev, withAck) ==
    IF Dispatch(i) = 0
    THEN \* console.warn(...); return false
         /\ lastEmit' = [NoEmit EXCEPT !.method = "refused", !.via = i, !.ev = ev,
                                       !.withAck = withAck]
         /\ UNCHANGED <<setHeap, flagHeap, ops, meta, remote, adapterVars, ackVars>>
    ELSE Emit(Dispatch(i), ev, withAck)

\* operators, proxies around them, chaining on either, and emits
ProxyNext ==
    \/ \E w \in DOMAIN ops : LoggingBroadcastOperatorNew(w)
    \/ \E w \in DOMAIN ops : CompressionBroadcastOperatorNew(w)
    \/ \E w \in DOMAIN ops, role \in UserRoles : AccessControlBroadcastOperatorNew(w, role)
    \/ \E i \in DOMAIN ops, rs \in SUBSET OpRooms : To(i, rs)
    \/ \E i \in DOMAIN ops, rs \in SUBSET OpRooms : Except(i, rs)
    \/ \E i \in DOMAIN ops, b \in BOOLEAN : Compress(i, b)
    \/ \E i \in DOMAIN ops : Volatile(i)
    \/ \E i \in DOMAIN ops, ms \in Timeouts : Timeout(i, ms)
    \/ \E i \in DOMAIN ops, ev \in Events, withAck \in BOOLEAN :
          emitter = 0 /\ EmitOn(i, ev, withAck)

ProxySpec == OperatorsInit /\ [][ProxyNext]_vars

(* --------------------------- the operators ----------------------------- *)

OperatorNext ==
    \/ \E id \in RemoteIds : RemoteSocketNew(id)
    \/ \E i \in DOMAIN ops, rs \in SUBSET OpRooms : To(i, rs)
    \/ \E i \in DOMAIN ops, rs \in SUBSET OpRooms : In(i, rs)
    \/ \E i \in DOMAIN ops, rs \in SUBSET OpRooms : Except(i, rs)
    \/ \E i \in DOMAIN ops, b \in BOOLEAN : Compress(i, b)
    \/ \E i \in DOMAIN ops : Volatile(i)
    \/ \E i \in DOMAIN ops : Local(i)
    \/ \E i \in DOMAIN ops, ms \in Timeouts : Timeout(i, ms)
    \/ \E ms \in Timeouts : RemoteSocketTimeout(ms)
    \/ \E i \in DOMAIN ops, ev \in Events : Emit(i, ev, FALSE)
    \/ \E ev \in Events : RemoteSocketEmit(ev, FALSE)

OperatorSpec == OperatorsInit /\ [][OperatorNext]_vars

(* ------------------------ one acknowledged emit ------------------------ *)

\* the RemoteSocket's own operator and the operators its timeout() returned:
\* they share the handle's rooms set
HandleOperators ==
    IF remote = 0 THEN {} ELSE {i \in DOMAIN ops : ops[i].rooms = ops[remote].rooms}

\* the operators the emit can go through are built before it starts: the
\* root operator, the RemoteSocket's operator and one result of its timeout()
AckNext ==
    \/ \E id \in RemoteIds : emitter = 0 /\ RemoteSocketNew(id)
    \/ \E ms \in Timeouts :
          emitter = 0 /\ HandleOperators = {remote} /\ RemoteSocketTimeout(ms)
    \/ \E i \in DOMAIN ops, ev \in Events : emitter = 0 /\ Emit(i, ev, TRUE)
    \/ \E i \in DOMAIN ops, ev \in Events : emitter = 0 /\ Emit(i, ev, FALSE)
    \/ \E i \in DOMAIN ops, ev \in Events : emitter = 0 /\ EmitWithAck(i, ev)
    \/ \E ev \in Events : emitter = 0 /\ RemoteSocketEmit(ev, TRUE)
    \/ \E c \in ClientCounts : ServerResponded(c)
    \/ \E v \in ResponseValues : ClientResponded(v)
    \/ \E n \in ServerCounts : ServerCountResolved(n)
    \/ TimerFires

AckSpec == OperatorsInit /\ [][AckNext]_vars

\* the event loop runs a due timer callback
AckFairSpec == AckSpec /\ WF_vars(TimerFires)


(* ================== properties of the acknowledged emit ================ *)

\* the flags of the operator the emit went through
EmitFlags == FlagsOfOp(emitter)

\* C2: whatever the order of server reports, client responses, the
\* serverCount() resolution and the timer, the ack callback is invoked at
\* most once.
C2_AckAtMostOnce == Len(acks) <= 1

\* C2 witness: a success followed by a late server report and a late response
C2_Witness ==
    /\ Len(acks) = 1
    /\ acks[1].err = "null"
    /\ actualServerCount > expectedServerCount
    /\ Len(responses) > Len(acks[1].array)
    /\ ~ExpectSingleResponse(EmitFlags)

\* C3: a step reports success iff it is a change of the aggregation state
\* after which the timer has not fired, serverCount() has resolved, the
\* servers that reported are as many as expected and the responses as many as
\* the reported clients.
C3_SuccessIffComplete ==
    [][LET success == /\ Len(acks') = Len(acks) + 1
                      /\ acks'[Len(acks')].err = "null"
           change == /\ emitter # 0
                     /\ emitter' = emitter
                     /\ <<expectedServerCount, actualServerCount, expectedClientCount,
                          responses, serverCountPromise>>'
                          # <<expectedServerCount, actualServerCount,
                               expectedClientCount, responses, serverCountPromise>>
       IN success <=> /\ change
                      /\ ~timedOut'
                      /\ serverCountPromise' = "resolved"
                      /\ expectedServerCount' = actualServerCount'
                      /\ Len(responses') = expectedClientCount']_vars

\* C3 witness: success reported once two servers, the server count and the
\* responses are all in
C3_Witness ==
    /\ Len(acks) = 1
    /\ acks[1].err = "null"
    /\ serverCountPromise = "resolved"
    /\ expectedServerCount = 2
    /\ actualServerCount = 2
    /\ expectedClientCount = 3
    /\ Len(responses) = 3

\* the runs of C4: serverCount() is 2 if resolved, the reports so far are
\* among 3 and 2 (a count is at most 3, so two reports summing to 5 are 3 and
\* 2), at most 5 responses, the timer not fired
C4_Scenario ==
    /\ emitter # 0
    /\ ~ExpectSingleResponse(EmitFlags)
    /\ ~timedOut
    /\ serverCountPromise = "resolved" => expectedServerCount = 2
    /\ <<actualServerCount, expectedClientCount>> \in {<<0, 0>>, <<1, 3>>, <<1, 2>>, <<2, 5>>}
    /\ Len(responses) <= 5

C4_AllIn ==
    /\ serverCountPromise = "resolved"
    /\ actualServerCount = 2
    /\ Len(responses) = 5

\* C4: with reports 3 and 2, serverCount() = 2 and 5 responses, in any order
\* and before the deadline, the callback has fired exactly once, without
\* error and with the 5 responses, when all of them are in, and has not fired
\* before.
C4_TwoServersFiveAcks ==
    C4_Scenario =>
        IF C4_AllIn
        THEN acks = <<[err |-> "null", kind |-> "array", value |-> "", array |-> responses]>>
        ELSE acks = <<>>

C4_Witness ==
    /\ C4_Scenario
    /\ C4_AllIn
    /\ Len(acks) = 1
    /\ Len(acks[1].array) = 5
    /\ timer = "cleared"

\* C5: when the timer fires with 4 of 5 expected responses in, the callback
\* is invoked (for the first time) with the timeout error and those 4
\* responses; once the timer has fired no later event invokes it again.
C5_TimeoutWithPartial ==
    [][/\ (/\ timer = "pending"
           /\ timer' = "fired"
           /\ ~ExpectSingleResponse(EmitFlags)
           /\ expectedClientCount = 5
           /\ Len(responses) = 4)
          => /\ acks' = <<[err |-> "timeout", kind |-> "array", value |-> "",
                           array |-> responses]>>
             /\ Len(acks'[1].array) = 4
       /\ timedOut => acks' = acks]_vars

\* C5 witness: timed out with 4 responses, the 5th arrived afterwards
C5_Witness ==
    /\ timedOut
    /\ Len(acks) = 1
    /\ acks[1].err = "timeout"
    /\ Len(acks[1].array) = 4
    /\ expectedClientCount = 5
    /\ Len(responses) = 5

\* C6: every acknowledged emit eventually invokes its callback, the timer
\* callback being run when due.
C6_EventuallyAcked == (emitter # 0) ~> (Len(acks) >= 1)

\* C6 witness: an emit through an operator without flags.timeout, timed out
\* while serverCount() and a response were still outstanding
C6_Witness ==
    /\ emitter # 0
    /\ "timeout" \notin DOMAIN EmitFlags
    /\ serverCountPromise = "pending"
    /\ Len(responses) < expectedClientCount
    /\ Len(acks) = 1
    /\ acks[1].err = "timeout"

\* C9: an emit through the RemoteSocket's operator, or through what its
\* timeout(ms) returns, targets {id} with expectSingleResponse set; a success
\* reported with exactly one response in passes that response itself, and a
\* timeout passes null.
C9_SingleResponse ==
    [][/\ (emitter = 0 /\ emitter' \in HandleOperators')
          => /\ lastEmit'.rooms \in {{id} : id \in RemoteIds}
             /\ lastEmit'.except = {}
             /\ ExpectSingleResponse(lastEmit'.flags)
       /\ (emitter \in HandleOperators /\ Len(acks') = Len(acks) + 1)
          => LET a == acks'[Len(acks')]
             IN /\ (a.err = "null" /\ Len(responses') = 1)
                   => (a.kind = "value" /\ a.value = responses'[1])
                /\ a.err = "timeout" => a.kind = "null"]_vars

\* C9 witness: through handle.timeout(ms), one response, surfaced bare
C9_Witness ==
    /\ emitter \in HandleOperators
    /\ emitter # remote
    /\ "timeout" \in DOMAIN EmitFlags
    /\ responses = <<"a">>
    /\ acks = <<[err |-> "null", kind |-> "value", value |-> "a", array |-> <<>>]>>

(* ====================== properties of the operators ==================== *)

\* C8: no step changes the rooms, exceptRooms or flags of an operator that
\* already exists.
C8_ChainingImmutable ==
    [][\A i \in DOMAIN ops : i \in DOMAIN ops' /\ View(i)' = View(i)]_vars

\* C8 witness: a = operator.to("x"); b = a.to("y")
C8_Witness ==
    /\ Len(ops) = 3
    /\ ops[3].exceptRooms = ops[2].exceptRooms
    /\ ops[3].flags = ops[1].flags
    /\ RoomsOfOp(1) = {}
    /\ RoomsOfOp(2) = {"x"}
    /\ RoomsOfOp(3) = {"x", "y"}


(* ========================= properties of emit ========================== *)

\* C11: an emit of a reserved event name throws and does nothing else: no
\* adapter call, no timer, no aggregation state, no callback invocation, and
\* the operators as they were.
C11_ReservedNameRejected ==
    [][(lastEmit' # lastEmit /\ lastEmit'.ev \in RESERVED_EVENTS)
          => /\ lastEmit'.method = "throw"
             /\ ~lastEmit'.returned
             /\ UNCHANGED <<setHeap, flagHeap, ops, meta, remote, ackVars, adapterVars>>]_vars

\* C11 witness: emit("connect", callback) threw; nothing was started
C11_Witness ==
    /\ lastEmit.method = "throw"
    /\ lastEmit.ev = "connect"
    /\ lastEmit.withAck
    /\ emitter = 0
    /\ timer = "none"
    /\ serverCountPromise = "none"
    /\ acks = <<>>


(* ===================== the promise of emitWithAck ====================== *)

\* the resolve / reject calls the promise has received: one per invocation of
\* the appended callback
SettleCalls == [k \in DOMAIN acks |-> EmitWithAckCallback(acks[k])]

IsPrefix(a, b) == Len(a) <= Len(b) /\ a = SubSeq(b, 1, Len(a))

\* a rejection carries the timeout error and, as err.responses, the second
\* argument of the callback
Rejected(c, nullForSingle) ==
    /\ c.call = "reject"
    /\ c.err = "timeout"
    /\ c.kind = (IF nullForSingle /\ ExpectSingleResponse(EmitFlags)
                 THEN "null" ELSE "array")
    /\ c.kind = "array" => IsPrefix(c.array, responses)

\* a resolution carries the response(s)
Resolved(c) ==
    /\ c.call = "resolve"
    /\ c.kind = "array" => IsPrefix(c.array, responses)
    /\ c.kind = "value" => (Len(responses) > 0 /\ c.value = responses[1])
    /\ c.kind # "null"

\* at most one settle call; a rejection when the deadline expired first, a
\* resolution otherwise
PromiseOutcome(nullForSingle) ==
    /\ Len(SettleCalls) <= 1
    /\ timedOut => (Len(SettleCalls) = 1 /\ Rejected(SettleCalls[1], nullForSingle))
    /\ (~timedOut /\ Len(SettleCalls) = 1) => Resolved(SettleCalls[1])

\* C12 as stated, at every moment of an emitWithAck: the promise has settled
\* at most once; it is rejected with the timeout error annotated with the
\* partial responses when the deadline expired first, and a promise settled
\* otherwise is resolved with the response(s).
C12_RejectsWithPartialResponses == PromiseOutcome(FALSE)

\* C12 amended: the promise settles exactly once, as above, the annotation
\* being the partial responses for an operator without expectSingleResponse
\* and null for one with it.
C12_PromiseSettlesOnce ==
    /\ []PromiseOutcome(TRUE)
    /\ (emitter # 0) ~> (Len(SettleCalls) = 1)

\* C12 witness: the deadline expired with two of the responses in; the promise
\* was rejected once, annotated with the two
C12_Witness ==
    /\ Len(SettleCalls) = 1
    /\ SettleCalls[1].call = "reject"
    /\ SettleCalls[1].array = <<"a", "b">>
    /\ timedOut


(* ====================== inputs after the deadline ====================== *)

\* C13: once the deadline has expired, a late client response or server report
\* leaves the aggregation state as it was, and the collection handed to the
\* callback with the timeout error (the responses array itself) keeps exactly
\* the responses that had arrived before the deadline.
C13_LateInputsDiscarded ==
    [][timedOut => /\ responses' = responses
                   /\ expectedClientCount' = expectedClientCount
                   /\ actualServerCount' = actualServerCount
                   /\ expectedServerCount' = expectedServerCount]_vars


(* ==================== delivery of a fast-path broadcast ================ *)

\* C14: on a fast-path broadcast every connection the selector matches gets
\* each frame exactly once, by the topic publish if its transport is websocket
\* and by a direct write otherwise, and no other connection gets it: the
\* recipients are those of the generic path for the same selector.
C14_FastPathDelivery ==
    (lastCall.op = "broadcast" /\ ~lastCall.generic) =>
        LET matching == Apply(lastCall.rooms, lastCall.except)
        IN /\ Len(lastCall.publishes) = Len(lastCall.frames)
           /\ \A k \in DOMAIN lastCall.publishes, id \in Ids :
                 LET byPublish == id \in PublishRecipients(lastCall.publishes[k].topic)
                     byWrite == id \in lastCall.writes
                 IN IF id \notin matching
                    THEN ~byPublish /\ ~byWrite
                    ELSE IF transport[id] = "websocket"
                    THEN byPublish /\ ~byWrite
                    ELSE byWrite /\ ~byPublish


(* ============== the namespace topic and the connection log ============= *)

\* C15: over any sequence of addAll / del calls for a connection, the
\* namespace-topic subscribe and the logger notification are issued on the
\* addAll that creates the membership record, and on no other addAll.
C15_NamespaceTopicOnCreation ==
    lastCall.op = "addAll" =>
        /\ (NspName \in lastCall.subscribeCalls) <=> lastCall.isNew
        /\ lastCall.logged <=> lastCall.isNew


(* ============================ the frame of del ========================= *)

\* C16: del(id, room) changes at most the membership of that room and the
\* subscription to its topic; the other memberships, the other room topics and
\* the namespace topic stay; when the connection is not a member of the room,
\* membership and subscriptions are exactly as before.
C16_DelFrame ==
    [][\A id \in Ids, room \in RoomNames :
          Del(id, room) =>
             LET topic == NspName \o SEPARATOR \o room
             IN /\ \A r \in RoomNames \ {room} : rooms'[r] = rooms[r]
                /\ rooms'[room] \ {id} = rooms[room] \ {id}
                /\ DOMAIN sids' = DOMAIN sids
                /\ \A i \in DOMAIN sids :
                      /\ i # id => sids'[i] = sids[i]
                      /\ sids'[i] \ {room} = sids[i] \ {room}
                /\ \A i \in Ids \ {id} : subscribed'[i] = subscribed[i]
                /\ subscribed'[id] \ {topic} = subscribed[id] \ {topic}
                /\ (NspName \in subscribed'[id]) <=> (NspName \in subscribed[id])
                /\ room \notin SidsGet(id) =>
                      (sids' = sids /\ rooms' = rooms /\ subscribed' = subscribed)]_vars

\* C16 witness: del(id, r1) on a live connection that is a member of r2 only;
\* it still holds the namespace topic and the topic of r2
C16_Witness ==
    /\ lastCall.op = "del"
    /\ lastCall.rooms = {"r1"}
    /\ lastCall.wasMember = {}
    /\ conn[lastCall.id] = "live"
    /\ SidsGet(lastCall.id) = {"r2"}
    /\ subscribed[lastCall.id] = {NspName, NspName \o SEPARATOR \o "r2"}


(* ========================= emit without a callback ===================== *)

\* C17: an emit whose last argument is not a callback calls adapter.broadcast
\* once, with the operator's own rooms, exceptRooms and flags, and returns
\* true; it calls neither broadcastWithAck nor serverCount, starts no timer
\* and creates no aggregation state.
C17_FireAndForget ==
    (lastEmit.method # "none" /\ ~lastEmit.withAck /\ lastEmit.ev \notin RESERVED_EVENTS)
       => /\ lastEmit.method = "broadcast"
          /\ lastEmit.returned
          /\ lastEmit.rooms = RoomsOfOp(lastEmit.via)
          /\ lastEmit.except = ExceptOfOp(lastEmit.via)
          /\ lastEmit.flags = FlagsOfOp(lastEmit.via)
          /\ emitter = 0
          /\ timer = "none"
          /\ serverCountPromise = "none"
          /\ responses = <<>>
          /\ actualServerCount = 0
          /\ expectedClientCount = 0
          /\ acks = <<>>

\* C17 witness: room("x").timeout(ms).emit("foo") went to adapter.broadcast; the
\* timeout flag is passed on and no timer runs
C17_Witness ==
    /\ lastEmit.method = "broadcast"
    /\ ~lastEmit.withAck
    /\ lastEmit.rooms = {"x"}
    /\ "timeout" \in DOMAIN lastEmit.flags
    /\ timer = "none"


(* ======================= the frame of the chaining ===================== *)

\* the newest operator, by value
Newest == View(Len(ops))

\* flags f with the one flag k set to v, every other flag as in f
OneFlagSet(new, f, k, v) ==
    /\ DOMAIN new = DOMAIN f \cup {k}
    /\ new[k] = v
    /\ \A x \in DOMAIN f \ {k} : new[x] = f[x]

\* the step made the newest operator from operator i by setting flag k only
FlagFrame(i, k, v) ==
    /\ Newest'.rooms = RoomsOfOp(i)
    /\ Newest'.exceptRooms = ExceptOfOp(i)
    /\ OneFlagSet(Newest'.flags, FlagsOfOp(i), k, v)

\* C18: each chaining method changes only the component it names: to / in
\* add to rooms and keep exceptRooms and flags; except adds to exceptRooms and
\* keeps rooms and flags; compress / volatile / local / timeout set their one
\* flag and keep rooms, exceptRooms and every other flag.
C18_ChainingFrame ==
    [][\A i \in DOMAIN ops :
          /\ \A rs \in SUBSET OpRooms :
                /\ To(i, rs) => Newest' = [View(i) EXCEPT !.rooms = @ \cup rs]
                /\ In(i, rs) => Newest' = [View(i) EXCEPT !.rooms = @ \cup rs]
                /\ Except(i, rs) => Newest' = [View(i) EXCEPT !.exceptRooms = @ \cup rs]
          /\ \A b \in BOOLEAN :
                Compress(i, b) => FlagFrame(i, "compress", b)
          /\ Volatile(i) => FlagFrame(i, "volatile", TRUE)
          /\ Local(i) => FlagFrame(i, "local", TRUE)
          /\ \A ms \in Timeouts :
                Timeout(i, ms) => FlagFrame(i, "timeout", ms)]_vars

\* C18 witness: the RemoteSocket's operator with timeout(100) applied: the room
\* of the socket and expectSingleResponse are kept, the timeout is set
C18_Witness ==
    /\ Len(ops) = 3
    /\ remote = 2
    /\ meta[3].from = 2
    /\ RoomsOfOp(3) = {"s1"}
    /\ ExceptOfOp(3) = {}
    /\ DOMAIN FlagsOfOp(3) = {"expectSingleResponse", "timeout"}
    /\ FlagsOfOp(3)["expectSingleResponse"]
    /\ FlagsOfOp(3)["timeout"] = 100


(* =============================== the proxies =========================== *)

\* operator i is an access control proxy of a role other than admin, or was
\* returned by a chain of chaining calls applied to one
RECURSIVE FromNonAdmin(_)
FromNonAdmin(i) ==
    \/ meta[i].class = "AccessControlBroadcastOperator" /\ meta[i].userRole # "admin"
    \/ meta[i].from # 0 /\ FromNonAdmin(meta[i].from)

\* C19: no emit issued through an AccessControlBroadcastOperator whose userRole
\* is not 'admin', directly or after any chaining calls applied to it, reaches
\* adapter.broadcast or adapter.broadcastWithAck.
C19_NonAdminNeverReachesAdapter ==
    [][\A i \in DOMAIN ops, ev \in Events, withAck \in BOOLEAN :
          (FromNonAdmin(i) /\ EmitOn(i, ev, withAck))
             => lastEmit'.method \notin {"broadcast", "broadcastWithAck"}]_vars

\* C20: an emit issued through a CompressionBroadcastOperator reaches the
\* adapter with flags.compress = true, whatever the compress flag of the
\* wrapped operator, and leaves the wrapped operator's flags as they were.
C20_CompressionSetsFlag ==
    [][\A i \in DOMAIN ops, ev \in Events, withAck \in BOOLEAN :
          (/\ meta[i].class = "CompressionBroadcastOperator"
           /\ EmitOn(i, ev, withAck)
           /\ lastEmit'.method \in {"broadcast", "broadcastWithAck"})
             => /\ "compress" \in DOMAIN lastEmit'.flags
                /\ lastEmit'.flags["compress"] = TRUE
                /\ FlagsOfOp(meta[i].wrapped)' = FlagsOfOp(meta[i].wrapped)]_vars

====
